---- MODULE Spec2Model ----
(***************************************************************************)
(* A model of the text and audio helpers of the viXTTS wrapper             *)
(* (src/src/wrapper/helper.py): split_into_sentences, normalize_numbers,   *)
(* calculate_inference_params, trim_silence and paragraph_to_audio.        *)
(*                                                                         *)
(* A Python str is a sequence of one-character strings.  Characters        *)
(* outside ASCII are written by name: "a_grave" is U+00E0, "U2026" the     *)
(* horizontal ellipsis, "U2013"/"U2014" the en/em dash, "U201D"/"U2019"    *)
(* the right double/single quotation mark, "U27E6"/"U27E7" the white       *)
(* square brackets of the ellipsis token.                                  *)
(***************************************************************************)
EXTENDS Integers, Sequences, FiniteSets

VARIABLES
    fn,              \* the function under call
    pc,              \* position inside the call
    paragraph,       \* split_into_sentences: argument
    max_len,         \* split_into_sentences: argument
    language,        \* split_into_sentences: argument
    base_sentences,  \* split_into_sentences: stage-1 result
    sent_i,          \* index of the next sentence of the outer for loop
    merged,          \* tokens of the long sentence being packed
    tok_i,           \* index of the next token of the inner for loop
    buffer,          \* in-progress buffer of tokens
    current_len,     \* length of the in-progress buffer once joined
    chunks,          \* split_into_sentences: result so far
    text,            \* normalize_numbers, calculate_inference_params: argument
    normalized,      \* normalize_numbers: result
    params,          \* calculate_inference_params: result
    audio_data,      \* trim_silence: argument
    sr,              \* trim_silence: argument
    frame_length,    \* trim_silence: argument
    hop_length,      \* trim_silence: argument
    keep_silence_duration,  \* trim_silence: argument, in tenths of a second
    trimmed_audio_data,     \* trim_silence: result
    error,           \* the exception that ended the call, "none" without one
    output_file_length,  \* DEFAULT_OUTPUT_FILE_LENGTH of wrapper.constants
    sentences,       \* paragraph_to_audio: the chunks of the paragraph
    index,           \* paragraph_to_audio: index of the enumerate loop
    audio_map,       \* paragraph_to_audio: the dict, a sequence of its items
    out_wav,         \* paragraph_to_audio: out_wav["wav"]
    tuned_audio,     \* paragraph_to_audio: result of fine_tune_audio
    returned,        \* what the caller received: <<>> or <<audio_map>>
    engine_calls,    \* the calls of model.inference so far
    in_flight,       \* the calls of model.inference that have not ended
    trace            \* the steps of the loop taken so far

splitVars == <<paragraph, max_len, language, base_sentences, sent_i, merged,
               tok_i, buffer, current_len, chunks>>

textVars == <<text, normalized, params>>

trimVars == <<audio_data, sr, frame_length, hop_length, keep_silence_duration,
              trimmed_audio_data>>

pipeVars == <<output_file_length, sentences, index, audio_map, out_wav,
              tuned_audio, returned, engine_calls, in_flight, trace>>

vars == <<fn, pc, error, splitVars, textVars, trimVars, pipeVars>>

----------------------------------------------------------------------------
(* Bounds of the model. *)

MaxParaLen == 4
MaxMaxLen == 3
MaxNumLen == 4
MaxWords == 52
MaxAudioLen == 8
MaxFrameLength == 4
MaxHopLength == 3
MaxKeepTenths == 2
MaxPipeLen == 4
MaxKeyLen == 2

----------------------------------------------------------------------------
(* Characters and str methods. *)

SP == " "
AGRAVE == "a_grave"
ELLIPSIS_CHAR == "U2026"
EN_DASH == "U2013"
EM_DASH == "U2014"

Whitespace == {" ", "\t", "\n"}

Range(s) == {s[i] : i \in DOMAIN s}

RECURSIVE LStrip(_, _)
LStrip(s, cs) ==
    IF s # <<>> /\ Head(s) \in cs THEN LStrip(Tail(s), cs) ELSE s

RECURSIVE RStrip(_, _)
RStrip(s, cs) ==
    IF s # <<>> /\ s[Len(s)] \in cs
    THEN RStrip(SubSeq(s, 1, Len(s) - 1), cs)
    ELSE s

\* str.strip(chars)
StripChars(s, cs) == RStrip(LStrip(s, cs), cs)

\* str.strip()
Strip(s) == StripChars(s, Whitespace)

LowerChar(c) ==
    CASE c = "A" -> "a"
      [] c = "B" -> "b"
      [] c = "C" -> "c"
      [] c = "D" -> "d"
      [] c = "V" -> "v"
      [] c = "A_GRAVE" -> AGRAVE
      [] OTHER -> c

Min(a, b) == IF a <= b THEN a ELSE b
Max(a, b) == IF a >= b THEN a ELSE b

\* str.lower()
Lower(s) == [i \in DOMAIN s |-> LowerChar(s[i])]

StartsWithAt(s, i, pat) ==
    /\ i + Len(pat) - 1 <= Len(s)
    /\ SubSeq(s, i, i + Len(pat) - 1) = pat

\* str.replace(old, new), old not empty
RECURSIVE Replace(_, _, _)
Replace(s, old, new) ==
    IF s = <<>> THEN <<>>
    ELSE IF StartsWithAt(s, 1, old)
         THEN new \o Replace(SubSeq(s, Len(old) + 1, Len(s)), old, new)
         ELSE <<Head(s)>> \o Replace(Tail(s), old, new)

\* " ".join(tokens)
RECURSIVE Join(_)
Join(tokens) ==
    IF tokens = <<>> THEN <<>>
    ELSE IF Len(tokens) = 1 THEN tokens[1]
    ELSE tokens[1] \o <<SP>> \o Join(Tail(tokens))

RECURSIVE SkipWhile(_, _, _)
SkipWhile(s, i, cs) ==
    IF i <= Len(s) /\ s[i] \in cs THEN SkipWhile(s, i + 1, cs) ELSE i

----------------------------------------------------------------------------
(* split_into_sentences, stage 1: the strong boundaries. *)

DOTS == <<".", ".", ".">>
ELLIPSIS_TOKEN == <<"U27E6", "E", "L", "L", "I", "P", "S", "I", "S", "U27E7">>

StrongPunct == {".", "!", "?"}
Closers == {"\"", "'", "U201D", "U2019", ")", "]"}

\* the text after strip() and the two replace() calls
ProtectEllipses(p) ==
    Replace(Replace(Strip(p), <<ELLIPSIS_CHAR>>, DOTS), DOTS, ELLIPSIS_TOKEN)

\* The index after a match of boundary_pattern that starts at i, or 0 when the
\* pattern does not match at i.
MatchEnd(txt, i) ==
    LET afterHead ==
            IF StartsWithAt(txt, i, ELLIPSIS_TOKEN) THEN i + Len(ELLIPSIS_TOKEN)
            ELSE IF i <= Len(txt) /\ txt[i] \in StrongPunct THEN i + 1
            ELSE 0
        afterClosers == SkipWhile(txt, afterHead, Closers)
        afterSpace == SkipWhile(txt, afterClosers, Whitespace)
    IN  IF afterHead = 0 \/ afterSpace = afterClosers THEN 0 ELSE afterSpace

\* The finditer loop and the tail: start is the first index of the open
\* sentence, i the scan position.
RECURSIVE ScanBoundaries(_, _, _, _)
ScanBoundaries(txt, start, i, acc) ==
    IF i > Len(txt)
    THEN LET tail == Strip(SubSeq(txt, start, Len(txt)))
         IN  IF tail # <<>>
             THEN Append(acc, Replace(tail, ELLIPSIS_TOKEN, DOTS))
             ELSE acc
    ELSE LET end == MatchEnd(txt, i)
         IN  IF end = 0
             THEN ScanBoundaries(txt, start, i + 1, acc)
             ELSE LET chunk == Strip(SubSeq(txt, start, end - 1))
                  IN  ScanBoundaries(txt, end, end,
                          IF chunk # <<>>
                          THEN Append(acc, Replace(chunk, ELLIPSIS_TOKEN, DOTS))
                          ELSE acc)

BaseSentences(p) == ScanBoundaries(ProtectEllipses(p), 1, 1, <<>>)

----------------------------------------------------------------------------
(* split_into_sentences, stage 2: long sentences. *)

SoftDelims == {",", ";", ":", "-", EN_DASH, EM_DASH}
BareDelims == {",", ";", ":", "-"}
ConjStrip == {".", ",", ";", ":", "-", EM_DASH, EN_DASH, " "}

ViConjWords ==
    { <<"v", AGRAVE>>,
      <<"n", "h", "u_horn", "n", "g">>,
      <<"h", "o", "a_circ_dot", "c">>,
      <<"r", "o_circ_grave", "i">>,
      <<"t", "h", "i_grave">>,
      <<"l", AGRAVE>>,
      <<"n", "e_circ", "n">>,
      <<"v", "i_grave">>,
      <<"b", "o_horn_hook", "i">>,
      <<"t", "u", "y">>,
      <<"d", "u_grave">> }

vi_conj(lang) == IF lang = "vi" THEN ViConjWords ELSE {}

\* re.split(soft_delims_regex, sentence): texts and delimiters alternate
RECURSIVE SplitParts(_, _, _)
SplitParts(s, cur, acc) ==
    IF s = <<>> THEN Append(acc, cur)
    ELSE IF Head(s) \in SoftDelims
         THEN SplitParts(Tail(s), <<>>, acc \o <<cur, <<Head(s)>>>>)
         ELSE SplitParts(Tail(s), Append(cur, Head(s)), acc)

ReSplit(sentence) == SplitParts(sentence, <<>>, <<>>)

FullMatchDelim(p) == Len(p) = 1 /\ p[1] \in SoftDelims

\* the while loop that re-attaches each delimiter to the token before it
RECURSIVE MergeFrom(_, _, _)
MergeFrom(parts, i, acc) ==
    IF i > Len(parts) THEN acc
    ELSE LET attach == i + 1 <= Len(parts) /\ FullMatchDelim(parts[i + 1])
             token == IF attach THEN parts[i] \o parts[i + 1] ELSE parts[i]
             next == IF attach THEN i + 2 ELSE i + 1
         IN  MergeFrom(parts, next,
                 IF token # <<>> THEN Append(acc, Strip(token)) ELSE acc)

Merged(sentence) == MergeFrom(ReSplit(sentence), 1, <<>>)

\* the separating space is not counted
smart_can_add_no_space(tok, cur_len, maxLen) ==
    cur_len + Len(tok) <= maxLen

smart_can_add(tok, cur_len, maxLen) ==
    cur_len + (IF cur_len > 0 THEN 1 ELSE 0) + Len(tok) <= maxLen

\* flush(buffer_tokens); the empty string stands for None
flush(buffer_tokens) == Strip(Join(buffer_tokens))

\* the chunk is appended without the test "if out"
AppendFlushedUntested(cs, buffer_tokens) ==
    Append(cs, flush(buffer_tokens))

\* out = flush(buffer); if out: chunks.append(out)
AppendFlushed(cs, buffer_tokens) ==
    LET out == flush(buffer_tokens)
    IN  IF out # <<>> THEN Append(cs, out) ELSE cs

\* the test that pops the last token of the buffer
PopsLast(buf, lang) ==
    LET last == buf[Len(buf)]
        last_word == StripChars(Lower(last), ConjStrip)
    IN  last_word \in vi_conj(lang) \/ (Len(last) = 1 /\ last[1] \in BareDelims)

\* the buffer that is flushed when a token does not fit
BufferToFlush(buf, lang) ==
    IF buf # <<>> /\ PopsLast(buf, lang)
    THEN SubSeq(buf, 1, Len(buf) - 1)
    ELSE buf

\* One iteration of "for tok in merged" on st = [buffer, current_len, chunks].
PackStep(st, tok, maxLen, lang) ==
    LET tok_stripped == Strip(tok)
    IN  IF tok_stripped = <<>> THEN st
        ELSE IF smart_can_add(tok_stripped, st.current_len, maxLen)
        THEN [buffer |-> Append(st.buffer, tok_stripped),
              current_len |-> st.current_len
                  + (IF st.current_len > 0 THEN 1 ELSE 0) + Len(tok_stripped),
              chunks |-> st.chunks]
        ELSE [buffer |-> <<tok_stripped>>,
              current_len |-> Len(tok_stripped),
              chunks |-> AppendFlushed(st.chunks, BufferToFlush(st.buffer, lang))]

----------------------------------------------------------------------------
(* normalize_numbers. *)

Digits == {"2", "5"}

DigitWord(d) == IF d = "2" THEN <<"h", "a", "i">> ELSE <<"n", "a_breve", "m">>

\* The reading num2words gives a digit string: one word per digit.  The
\* library is outside the repository; all that is used of it is that a
\* reading holds letters and spaces, and no digit and no '.'.
RECURSIVE SpellDigits(_)
SpellDigits(ds) ==
    IF ds = <<>> THEN <<>>
    ELSE IF Len(ds) = 1 THEN DigitWord(ds[1])
    ELSE DigitWord(ds[1]) \o <<SP>> \o SpellDigits(Tail(ds))

\* num2words(int(m.group(1)), lang='vi')
Num2WordsInt(ds) == SpellDigits(ds)

\* num2words(float(m.group(0)), lang='vi'): the integer part, the word for
\* the decimal mark, the fraction
Num2WordsFloat(ip, fp) ==
    SpellDigits(ip) \o <<SP, "p", "h", "a_circ_hook", "y", SP>> \o SpellDigits(fp)

\* re.sub(r"(\d+)", ...): every maximal run of digits is replaced
RECURSIVE SubCardinal(_)
SubCardinal(t) ==
    IF t = <<>> THEN <<>>
    ELSE IF Head(t) \in Digits
         THEN LET e == SkipWhile(t, 1, Digits)
              IN  Num2WordsInt(SubSeq(t, 1, e - 1))
                      \o SubCardinal(SubSeq(t, e, Len(t)))
         ELSE <<Head(t)>> \o SubCardinal(Tail(t))

\* The index after a match of (\d+)\.(\d+) at the head of t, or 0.  \d+ is
\* greedy and a run of digits holds no '.', so the match is decided by the
\* run, one '.', and the next run.
DecimalEnd(t) ==
    LET e1 == SkipWhile(t, 1, Digits)
        e2 == SkipWhile(t, e1 + 1, Digits)
    IN  IF e1 > 1 /\ e1 <= Len(t) /\ t[e1] = "." /\ e2 > e1 + 1 THEN e2 ELSE 0

\* re.sub(r"(\d+)\.(\d+)", ...)
RECURSIVE SubDecimal(_)
SubDecimal(t) ==
    IF t = <<>> THEN <<>>
    ELSE LET e == DecimalEnd(t)
         IN  IF e # 0
             THEN LET e1 == SkipWhile(t, 1, Digits)
                  IN  Num2WordsFloat(SubSeq(t, 1, e1 - 1), SubSeq(t, e1 + 1, e - 1))
                          \o SubDecimal(SubSeq(t, e, Len(t)))
             ELSE <<Head(t)>> \o SubDecimal(Tail(t))

\* "for pattern, replacement_func in patterns": the cardinal pattern is the
\* first of the list, the decimal pattern the second
normalize_numbers(t) == SubDecimal(SubCardinal(t))

----------------------------------------------------------------------------
(* calculate_inference_params.  The values of the result are in            *)
(* hundredths: speed 104 is 1.04.                                          *)

PunctChars == {",", ".", "!", "?", ";", ":", EM_DASH, "-"}

punctuation_count(t) == Cardinality({i \in DOMAIN t : t[i] \in PunctChars})

\* the first index of each word of t.split()
WordStarts(t) ==
    {i \in DOMAIN t : t[i] \notin Whitespace /\ (i = 1 \/ t[i - 1] \in Whitespace)}

RECURSIVE WordEnd(_, _)
WordEnd(t, i) ==
    IF i <= Len(t) /\ t[i] \notin Whitespace THEN WordEnd(t, i + 1) ELSE i

word_count(t) == Cardinality(WordStarts(t))

\* len(set(text.lower().split()))
unique_words(t) ==
    Cardinality({Lower(SubSeq(t, i, WordEnd(t, i) - 1)) : i \in WordStarts(t)})

ShortParams ==
    [speed |-> 104, length_penalty |-> 75, temperature |-> 80,
     repetition_penalty |-> 150, enable_text_splitting |-> FALSE]

\* a / b > n / 100 and a / b < n / 100 on the quotients of the code, which
\* are compared with a two-digit decimal: the integers decide them exactly
RatioAbove(a, b, n) == 100 * a > n * b
RatioBelow(a, b, n) == 100 * a < n * b

\* the threshold is taken inclusively
VeryShortInclusive(wc) == wc <= 15

\* line 260
VeryShort(wc) == wc < 15

\* the length is tested before the punctuation density
SpeedLengthFirst(pcount, text_len) ==
    IF text_len > 200 THEN 95
    ELSE IF RatioAbove(pcount, Max(text_len, 1), 5) THEN 98
    ELSE 100

\* lines 273-279
Speed(pcount, text_len) ==
    IF RatioAbove(pcount, Max(text_len, 1), 5) THEN 98
    ELSE IF text_len > 200 THEN 95
    ELSE 100

\* lines 282-287
LengthPenalty(text_len) ==
    IF text_len < 80 THEN 100
    ELSE IF text_len > 200 THEN 110
    ELSE 105

\* lines 290-295
Temperature(uniq, wc) ==
    IF RatioAbove(uniq, Max(wc, 1), 70) THEN 75
    ELSE IF RatioBelow(uniq, Max(wc, 1), 50) THEN 70
    ELSE 72

\* lines 298-303
RepetitionPenalty(uniq, wc) ==
    IF wc > 50 /\ RatioBelow(uniq, Max(wc, 1), 60) THEN 400
    ELSE IF wc > 30 THEN 300
    ELSE 200

calculate_inference_params(t0) ==
    LET t == Strip(t0)
        text_len == Len(t)
        pcount == punctuation_count(t)
        wc == word_count(t)
        uniq == unique_words(t)
    IN  IF VeryShort(wc) THEN ShortParams
        ELSE [speed |-> Speed(pcount, text_len),
              length_penalty |-> LengthPenalty(text_len),
              temperature |-> Temperature(uniq, wc),
              repetition_penalty |-> RepetitionPenalty(uniq, wc),
              enable_text_splitting |-> FALSE]

----------------------------------------------------------------------------
(* trim_silence.  A sample is an integer in units of half the threshold, so *)
(* the threshold of the call is 2 and a sample of 3 is above it.            *)

THRESHOLD == 2

\* y padded by librosa.feature.rms (center=True, zeros): frame_length // 2
\* samples on each side
PaddedAt(y, frame_len, j) ==
    LET k == j - (frame_len \div 2)
    IN  IF k >= 1 /\ k <= Len(y) THEN y[k] ELSE 0

\* the number of frames of the padded signal
NumFrames(y, frame_len, hop) ==
    1 + ((Len(y) + 2 * (frame_len \div 2) - frame_len) \div hop)

RECURSIVE SumSquares(_, _, _, _)
SumSquares(y, frame_len, from, n) ==
    IF n = 0 THEN 0
    ELSE PaddedAt(y, frame_len, from) * PaddedAt(y, frame_len, from)
             + SumSquares(y, frame_len, from + 1, n - 1)

\* rms[t] > threshold for frame t (from 0): sqrt(mean(x^2)) > threshold
FrameActive(y, frame_len, hop, t) ==
    SumSquares(y, frame_len, t * hop + 1, frame_len) > THRESHOLD * THRESHOLD * frame_len

\* np.where(rms > threshold)[0]
ActiveFrames(y, frame_len, hop) ==
    {t \in 0..(NumFrames(y, frame_len, hop) - 1) : FrameActive(y, frame_len, hop, t)}

SetMax(S) == CHOOSE x \in S : \A z \in S : z <= x

\* the sample after the frame's hop in place of its first sample
frames_to_samples_next(frame, hop) == (frame + 1) * hop

\* librosa.frames_to_samples(last_frame, hop_length=hop_length)
frames_to_samples(frame, hop) == frame * hop

\* int(keep_silence_duration * sr), the duration in tenths of a second
keep_silence_samples(tenths, rate) == (tenths * rate) \div 10

\* s[:n] for n >= 0
SliceTo(s, n) == SubSeq(s, 1, Min(n, Len(s)))

\* max in place of min
TrimEndMax(last_sample, keep, len) == Max(last_sample + keep, len)

\* the end of the slice of line 73
TrimEnd(last_sample, keep, len) == Min(last_sample + keep, len)

\* lines 64-76, for a signal with an active frame
trim_silence(y, rate, frame_len, hop, keep_tenths) ==
    LET last_frame == SetMax(ActiveFrames(y, frame_len, hop))
        last_sample == frames_to_samples(last_frame, hop)
    IN  SliceTo(y, TrimEnd(last_sample, keep_silence_samples(keep_tenths, rate), Len(y)))

----------------------------------------------------------------------------
(* paragraph_to_audio: the functions it calls and the key it builds. *)

\* line 135: the max_len default that the call of line 341 leaves in force
DEFAULT_MAX_LEN == 250

\* line 43: the frame_length and hop_length defaults of trim_silence
\* (2048 and 512), kept in their ratio of four at the scale of the buffers
DEFAULT_FRAME_LENGTH == 4

DEFAULT_HOP_LENGTH == 1

\* line 117: XTTS_KEEP_SILENCE_DURATION defaults to 0.2 seconds, in tenths
DEFAULT_KEEP_TENTHS == 2

\* lines 206-239: the packing loop over the tokens of one sentence
RECURSIVE PackAll(_, _, _, _)
PackAll(st, toks, maxLen, lang) ==
    IF toks = <<>> THEN st
    ELSE PackAll(PackStep(st, Head(toks), maxLen, lang), Tail(toks),
                 maxLen, lang)

\* lines 183-241: the loop over the base sentences
RECURSIVE ChunkSentences(_, _, _, _)
ChunkSentences(sents, maxLen, lang, acc) ==
    IF sents = <<>> THEN acc
    ELSE LET sentence == Strip(Head(sents))
         IN  IF Len(sentence) <= maxLen
             THEN ChunkSentences(Tail(sents), maxLen, lang,
                                 Append(acc, sentence))
             ELSE LET st == PackAll([buffer |-> <<>>, current_len |-> 0,
                                     chunks |-> acc],
                                    Merged(sentence), maxLen, lang)
                  IN  ChunkSentences(Tail(sents), maxLen, lang,
                                     AppendFlushed(st.chunks, st.buffer))

\* lines 135-241: split_into_sentences as one function
split_into_sentences(p, maxLen, lang) ==
    IF p = <<>> THEN <<>>
    ELSE ChunkSentences(BaseSentences(p), maxLen, lang, <<>>)

\* lines 79-95: normalize_text, whose one live step is normalize_numbers
normalize_text(t) == normalize_numbers(t)

DecimalDigits == <<"0", "1", "2", "3", "4", "5", "6", "7", "8", "9">>

\* line 372: the index as the f-string formats it
RECURSIVE IndexStr(_)
IndexStr(i) ==
    IF i < 10 THEN <<DecimalDigits[i + 1]>>
    ELSE IndexStr(i \div 10) \o <<DecimalDigits[(i % 10) + 1]>>

\* the key without the index
AudioNameNoIndex(i, sentence, k) ==
    <<"_">> \o SubSeq(sentence, 1, Min(k, Len(sentence)))

\* line 372: f"{index}_{sentence[:DEFAULT_OUTPUT_FILE_LENGTH]}"
AudioName(i, sentence, k) ==
    IndexStr(i) \o <<"_">> \o SubSeq(sentence, 1, Min(k, Len(sentence)))

\* line 373: audio_map[audio_name] = tuned_audio on an insertion-ordered dict
RECURSIVE DictSet(_, _, _)
DictSet(d, key, val) ==
    IF d = <<>> THEN <<[name |-> key, audio |-> val]>>
    ELSE IF Head(d).name = key
         THEN <<[name |-> key, audio |-> val]>> \o Tail(d)
         ELSE <<Head(d)>> \o DictSet(Tail(d), key, val)

\* lines 129-130 with line 64: fine_tune_audio raises where trim_silence does
FineTuneRaises(wav) ==
    ActiveFrames(wav, DEFAULT_FRAME_LENGTH, DEFAULT_HOP_LENGTH) = {}

\* lines 98-132: fine_tune_audio; keep_tenths is the value of line 117
fine_tune_audio(wav, rate, keep_tenths) ==
    trim_silence(wav, rate, DEFAULT_FRAME_LENGTH, DEFAULT_HOP_LENGTH,
                 keep_tenths)

----------------------------------------------------------------------------
(* The calls. *)

ParaChars == {"v", AGRAVE, ",", SP, ".", ELLIPSIS_CHAR}
Paragraphs == UNION {[1..n -> ParaChars] : n \in 0..MaxParaLen}
Languages == {"vi", "en"}

NumChars == {"2", "5", ".", "a", SP}
NumTexts == UNION {[1..n -> NumChars] : n \in 0..MaxNumLen}

\* The texts given to calculate_inference_params: n words of word_len
\* letters, of which about tenths / 10 are distinct, every third with a
\* capital, every every-th followed by a comma, inside white space.
Letters == <<"a", "b", "c", "d", "e", "f", "g", "h">>
DiversityTenths == {1, 4, 5, 6, 7, 8, 10}
WordLens == {1, 3, 7, 14}
PunctEvery == {0, 1, 4}

UpperChar(c) ==
    CASE c = "a" -> "A"
      [] c = "b" -> "B"
      [] c = "c" -> "C"
      [] c = "d" -> "D"
      [] OTHER -> c

GenWord(i, distinct, word_len, every) ==
    LET k == (i - 1) % distinct
        w == [j \in 1..word_len |->
                 IF j = 1 THEN Letters[(k % 8) + 1]
                 ELSE IF j = 2 THEN Letters[((k \div 8) % 8) + 1]
                 ELSE "x"]
        cased == IF i % 3 = 0 THEN [w EXCEPT ![1] = UpperChar(w[1])] ELSE w
    IN  IF every > 0 /\ i % every = 0 THEN Append(cased, ",") ELSE cased

GenText(n, tenths, word_len, every) ==
    LET distinct == Max(1, (n * tenths) \div 10)
    IN  <<SP>> \o Join([i \in 1..n |-> GenWord(i, distinct, word_len, every)])
             \o <<"\n">>

CalcTexts ==
    {<<>>} \cup
    {GenText(n, tenths, word_len, every) :
        n \in 0..MaxWords, tenths \in DiversityTenths,
        word_len \in WordLens, every \in PunctEvery}

Samples == {0, 3}
Audios == UNION {[1..n -> Samples] : n \in 1..MaxAudioLen}
SampleRates == {5, 10}

\* The paragraphs given to paragraph_to_audio, and what the engine can
\* answer: a silent buffer, or speech followed or preceded by silence.
PipeChars == {"v", "2", ".", SP}
\* One chunk of n words and a number: the number's reading adds a word.
NumberedParagraphs ==
    {Join([i \in 1..n |-> <<"v">>]) \o <<SP, "2", "2">> : n \in 12..14}
PipeParagraphs ==
    UNION {[1..n -> PipeChars] : n \in 0..MaxPipeLen} \cup NumberedParagraphs
EngineWavs == {<<0, 0>>, <<3, 3, 0, 0, 0>>, <<0, 3, 3>>}

NoParams ==
    [speed |-> 0, length_penalty |-> 0, temperature |-> 0,
     repetition_penalty |-> 0, enable_text_splitting |-> FALSE]

SplitIdle ==
    /\ paragraph = <<>>
    /\ max_len = 0
    /\ language = "vi"

TextIdle == text = <<>>

TrimIdle ==
    /\ audio_data = <<>>
    /\ sr = 0
    /\ frame_length = 0
    /\ hop_length = 0
    /\ keep_silence_duration = 0

PipeIdle == output_file_length = 0

InitPipeline ==
    /\ fn = "paragraph_to_audio"
    /\ paragraph \in PipeParagraphs
    /\ language \in Languages
    /\ max_len = DEFAULT_MAX_LEN
    /\ sr \in SampleRates
    /\ frame_length = DEFAULT_FRAME_LENGTH
    /\ hop_length = DEFAULT_HOP_LENGTH
    /\ keep_silence_duration = DEFAULT_KEEP_TENTHS
    /\ output_file_length \in 0..MaxKeyLen
    /\ audio_data = <<>>
    /\ TextIdle

InitSplit ==
    /\ fn = "split_into_sentences"
    /\ paragraph \in Paragraphs
    /\ max_len \in 1..MaxMaxLen
    /\ language \in Languages
    /\ TextIdle /\ TrimIdle
    /\ PipeIdle

InitNormalize ==
    /\ fn = "normalize_numbers"
    /\ text \in NumTexts
    /\ SplitIdle /\ TrimIdle
    /\ PipeIdle

InitCalculate ==
    /\ fn = "calculate_inference_params"
    /\ text \in CalcTexts
    /\ SplitIdle /\ TrimIdle
    /\ PipeIdle

InitTrim ==
    /\ fn = "trim_silence"
    /\ audio_data \in Audios
    /\ sr \in SampleRates
    /\ frame_length \in 1..MaxFrameLength
    /\ hop_length \in 1..MaxHopLength
    /\ keep_silence_duration \in 0..MaxKeepTenths
    /\ SplitIdle /\ TextIdle
    /\ PipeIdle

Init ==
    /\ pc = "call"
    /\ error = "none"
    /\ (InitSplit \/ InitNormalize \/ InitCalculate \/ InitTrim
           \/ InitPipeline)
    /\ base_sentences = <<>>
    /\ sent_i = 0
    /\ merged = <<>>
    /\ tok_i = 0
    /\ buffer = <<>>
    /\ current_len = 0
    /\ chunks = <<>>
    /\ normalized = <<>>
    /\ params = NoParams
    /\ trimmed_audio_data = <<>>
    /\ sentences = <<>>
    /\ index = 0
    /\ audio_map = <<>>
    /\ out_wav = <<>>
    /\ tuned_audio = <<>>
    /\ returned = <<>>
    /\ engine_calls = <<>>
    /\ in_flight = 0
    /\ trace = <<>>

\* lines 144-181: the empty paragraph returns at once, else stage 1
SplitStart ==
    /\ fn = "split_into_sentences" /\ pc = "call"
    /\ IF paragraph = <<>>
       THEN /\ pc' = "done"
            /\ UNCHANGED <<base_sentences, sent_i>>
       ELSE /\ base_sentences' = BaseSentences(paragraph)
            /\ sent_i' = 1
            /\ pc' = "sentence"
    /\ UNCHANGED <<pipeVars, fn, error, paragraph, max_len, language, merged, tok_i,
                   buffer, current_len, chunks, textVars, trimVars>>

\* lines 183-206: one sentence of the outer loop
NextSentence ==
    /\ fn = "split_into_sentences" /\ pc = "sentence"
    /\ sent_i <= Len(base_sentences)
    /\ LET sentence == Strip(base_sentences[sent_i])
       IN  IF Len(sentence) <= max_len
           THEN /\ chunks' = Append(chunks, sentence)
                /\ sent_i' = sent_i + 1
                /\ UNCHANGED <<pc, merged, tok_i, buffer, current_len>>
           ELSE /\ merged' = Merged(sentence)
                /\ tok_i' = 1
                /\ buffer' = <<>>
                /\ current_len' = 0
                /\ pc' = "pack"
                /\ UNCHANGED <<chunks, sent_i>>
    /\ UNCHANGED <<pipeVars, fn, error, paragraph, max_len, language, base_sentences,
                   textVars, trimVars>>

\* lines 211-235: one token of the inner loop
PackToken ==
    /\ fn = "split_into_sentences" /\ pc = "pack"
    /\ tok_i <= Len(merged)
    /\ LET st == PackStep([buffer |-> buffer, current_len |-> current_len,
                           chunks |-> chunks],
                          merged[tok_i], max_len, language)
       IN  /\ buffer' = st.buffer
           /\ current_len' = st.current_len
           /\ chunks' = st.chunks
    /\ tok_i' = tok_i + 1
    /\ UNCHANGED <<pipeVars, fn, pc, error, paragraph, max_len, language, base_sentences,
                   sent_i, merged, textVars, trimVars>>

\* lines 237-239: the flush after the last token
PackEnd ==
    /\ fn = "split_into_sentences" /\ pc = "pack"
    /\ tok_i > Len(merged)
    /\ chunks' = AppendFlushed(chunks, buffer)
    /\ sent_i' = sent_i + 1
    /\ pc' = "sentence"
    /\ UNCHANGED <<pipeVars, fn, error, paragraph, max_len, language, base_sentences,
                   merged, tok_i, buffer, current_len, textVars, trimVars>>

\* line 241
SplitReturn ==
    /\ fn = "split_into_sentences" /\ pc = "sentence"
    /\ sent_i > Len(base_sentences)
    /\ pc' = "done"
    /\ UNCHANGED <<pipeVars, fn, error, splitVars, textVars, trimVars>>

\* lines 28-40
NormalizeNumbers ==
    /\ fn = "normalize_numbers" /\ pc = "call"
    /\ normalized' = normalize_numbers(text)
    /\ pc' = "done"
    /\ UNCHANGED <<pipeVars, fn, error, splitVars, text, params, trimVars>>

\* lines 246-308
CalculateInferenceParams ==
    /\ fn = "calculate_inference_params" /\ pc = "call"
    /\ params' = calculate_inference_params(text)
    /\ pc' = "done"
    /\ UNCHANGED <<pipeVars, fn, error, splitVars, text, normalized, trimVars>>

\* lines 59-76: the index [-1] of line 64 raises IndexError on an empty array
TrimSilence ==
    /\ fn = "trim_silence" /\ pc = "call"
    /\ IF ActiveFrames(audio_data, frame_length, hop_length) = {}
       THEN /\ error' = "IndexError"
            /\ pc' = "raised"
            /\ UNCHANGED trimmed_audio_data
       ELSE /\ trimmed_audio_data' =
                   trim_silence(audio_data, sr, frame_length, hop_length,
                                keep_silence_duration)
            /\ pc' = "done"
            /\ UNCHANGED error
    /\ UNCHANGED <<pipeVars, fn, splitVars, textVars, audio_data, sr, frame_length,
                   hop_length, keep_silence_duration>>

\* lines 341-342: the paragraph is segmented, the dict starts empty
PipeSegment ==
    /\ fn = "paragraph_to_audio" /\ pc = "call"
    /\ sentences' = split_into_sentences(paragraph, max_len, language)
    /\ audio_map' = <<>>
    /\ index' = 0
    /\ pc' = "for"
    /\ UNCHANGED <<fn, error, splitVars, textVars, trimVars,
                   output_file_length, out_wav, tuned_audio, returned,
                   engine_calls, in_flight, trace>>

\* lines 343-347: the next chunk is stripped; an empty one is skipped
PipeFor ==
    /\ fn = "paragraph_to_audio" /\ pc = "for"
    /\ index < Len(sentences)
    /\ LET stripped == Strip(sentences[index + 1])
       IN  IF stripped = <<>>
           THEN /\ index' = index + 1
                /\ UNCHANGED <<pc, text>>
           ELSE /\ text' = stripped
                /\ pc' = "normalize"
                /\ UNCHANGED index
    /\ UNCHANGED <<fn, error, splitVars, normalized, params, trimVars,
                   output_file_length, sentences, audio_map, out_wav,
                   tuned_audio, returned, engine_calls, in_flight, trace>>

\* line 350: text = normalize_text(text)
PipeNormalize ==
    /\ fn = "paragraph_to_audio" /\ pc = "normalize"
    /\ text' = normalize_text(text)
    /\ trace' = Append(trace, <<"normalize", index>>)
    /\ pc' = "calculate"
    /\ UNCHANGED <<fn, error, splitVars, normalized, params, trimVars,
                   output_file_length, sentences, index, audio_map, out_wav,
                   tuned_audio, returned, engine_calls, in_flight>>

\* line 354: inference_params = calculate_inference_params(text)
PipeCalculate ==
    /\ fn = "paragraph_to_audio" /\ pc = "calculate"
    /\ params' = calculate_inference_params(text)
    /\ trace' = Append(trace, <<"calculate", index>>)
    /\ pc' = "inference"
    /\ UNCHANGED <<fn, error, splitVars, text, normalized, trimVars,
                   output_file_length, sentences, index, audio_map, out_wav,
                   tuned_audio, returned, engine_calls, in_flight>>

\* lines 356-360: model.inference is called and the loop waits for it
PipeInferenceCall ==
    /\ fn = "paragraph_to_audio" /\ pc = "inference"
    /\ engine_calls' = Append(engine_calls,
           [index |-> index, text |-> text, language |-> language,
            params |-> params])
    /\ in_flight' = in_flight + 1
    /\ trace' = Append(trace, <<"synthesize", index>>)
    /\ pc' = "engine"
    /\ UNCHANGED <<fn, error, splitVars, textVars, trimVars,
                   output_file_length, sentences, index, audio_map, out_wav,
                   tuned_audio, returned>>

\* line 356: the engine answers with a buffer under "wav"
PipeInferenceReturn ==
    /\ fn = "paragraph_to_audio" /\ pc = "engine"
    /\ \E wav \in EngineWavs : out_wav' = wav
    /\ in_flight' = in_flight - 1
    /\ pc' = "fine_tune"
    /\ UNCHANGED <<fn, error, splitVars, textVars, trimVars,
                   output_file_length, sentences, index, audio_map,
                   tuned_audio, returned, engine_calls, trace>>

\* the failed call is passed over and the loop goes on
PipeInferenceSkip ==
    /\ fn = "paragraph_to_audio" /\ pc = "engine"
    /\ in_flight' = in_flight - 1
    /\ index' = index + 1
    /\ pc' = "for"
    /\ UNCHANGED <<fn, error, splitVars, textVars, trimVars,
                   output_file_length, sentences, audio_map, out_wav,
                   tuned_audio, returned, engine_calls, trace>>

\* line 356: the engine raises; nothing in lines 341-375 catches it
PipeInferenceRaise ==
    /\ fn = "paragraph_to_audio" /\ pc = "engine"
    /\ in_flight' = in_flight - 1
    /\ error' = "EngineError"
    /\ pc' = "raised"
    /\ UNCHANGED <<fn, splitVars, textVars, trimVars,
                   output_file_length, sentences, index, audio_map, out_wav,
                   tuned_audio, returned, engine_calls, trace>>

\* lines 368-369: fine_tune_audio trims, or raises on a silent buffer
PipeFineTune ==
    /\ fn = "paragraph_to_audio" /\ pc = "fine_tune"
    /\ trace' = Append(trace, <<"trim", index>>)
    /\ IF FineTuneRaises(out_wav)
       THEN /\ error' = "IndexError"
            /\ pc' = "raised"
            /\ UNCHANGED tuned_audio
       ELSE /\ tuned_audio' = fine_tune_audio(out_wav, sr,
                                              keep_silence_duration)
            /\ pc' = "store"
            /\ UNCHANGED error
    /\ UNCHANGED <<fn, splitVars, textVars, trimVars,
                   output_file_length, sentences, index, audio_map, out_wav,
                   returned, engine_calls, in_flight>>

\* lines 372-373: the audio is stored under its key, the loop advances
PipeStore ==
    /\ fn = "paragraph_to_audio" /\ pc = "store"
    /\ audio_map' = DictSet(audio_map,
           AudioName(index, sentences[index + 1], output_file_length),
           tuned_audio)
    /\ trace' = Append(trace, <<"store", index>>)
    /\ index' = index + 1
    /\ pc' = "for"
    /\ UNCHANGED <<fn, error, splitVars, textVars, trimVars,
                   output_file_length, sentences, out_wav, tuned_audio,
                   returned, engine_calls, in_flight>>

\* line 375: return audio_map
PipeReturn ==
    /\ fn = "paragraph_to_audio" /\ pc = "for"
    /\ index >= Len(sentences)
    /\ returned' = <<audio_map>>
    /\ pc' = "returned"
    /\ UNCHANGED <<fn, error, splitVars, textVars, trimVars,
                   output_file_length, sentences, index, audio_map, out_wav,
                   tuned_audio, engine_calls, in_flight, trace>>

Next ==
    \/ SplitStart
    \/ NextSentence
    \/ PackToken
    \/ PackEnd
    \/ SplitReturn
    \/ NormalizeNumbers
    \/ CalculateInferenceParams
    \/ TrimSilence
    \/ PipeSegment
    \/ PipeFor
    \/ PipeNormalize
    \/ PipeCalculate
    \/ PipeInferenceCall
    \/ PipeInferenceReturn
    \/ PipeInferenceRaise
    \/ PipeFineTune
    \/ PipeStore
    \/ PipeReturn

Spec == Init /\ [][Next]_vars

SplitDone == fn = "split_into_sentences" /\ pc = "done"

----------------------------------------------------------------------------
(* The segmenter. *)

\* C1 as stated: every returned chunk is at most max_len long or holds no
\* soft delimiter at all.
C1_LengthBoundOrNoDelimiter ==
    SplitDone =>
        \A i \in DOMAIN chunks :
            Len(chunks[i]) <= max_len \/ Range(chunks[i]) \cap SoftDelims = {}

\* C1, amended: every returned chunk is at most max_len long or holds no
\* soft delimiter except as its last character (it is one token of the
\* pre-split, with the delimiter that ended it still attached).
C1_LengthBoundOrSingleToken ==
    SplitDone =>
        \A i \in DOMAIN chunks :
            \/ Len(chunks[i]) <= max_len
            \/ \A j \in 1..(Len(chunks[i]) - 1) : chunks[i][j] \notin SoftDelims

\* an oversized chunk that ends with its delimiter was returned
C1_Witness ==
    /\ SplitDone
    /\ \E i \in DOMAIN chunks :
           /\ Len(chunks[i]) > max_len
           /\ chunks[i][Len(chunks[i])] \in SoftDelims

\* the characters of s that are not white space, in order
NonSpace(s) == SelectSeq(s, LAMBDA c : c \notin Whitespace)

\* C2: the chunks joined by single spaces hold the characters of the
\* paragraph (its ellipses written as three dots), white space aside: nothing
\* is lost, doubled or reordered.
C2_NothingLost ==
    SplitDone =>
        NonSpace(Join(chunks)) = NonSpace(Replace(paragraph, <<ELLIPSIS_CHAR>>, DOTS))

\* C3: when the next token does not fit and the last token of the buffer is a
\* bare delimiter or a conjunction, the flushed chunk is the buffer without
\* that token and the next buffer is that token followed by the token that
\* did not fit.
C3_DeferredTokenStartsNextChunk ==
    [][(/\ fn = "split_into_sentences" /\ pc = "pack"
        /\ tok_i <= Len(merged)
        /\ Strip(merged[tok_i]) # <<>>
        /\ ~smart_can_add(Strip(merged[tok_i]), current_len, max_len)
        /\ buffer # <<>>
        /\ PopsLast(buffer, language))
       => (/\ chunks' = AppendFlushed(chunks, SubSeq(buffer, 1, Len(buffer) - 1))
           /\ buffer' = <<buffer[Len(buffer)], Strip(merged[tok_i])>>)]_vars

\* C4: no returned chunk is empty and none begins or ends with white space.
C4_NoEmptyChunkAllTrimmed ==
    SplitDone =>
        \A i \in DOMAIN chunks :
            /\ chunks[i] # <<>>
            /\ chunks[i][1] \notin Whitespace
            /\ chunks[i][Len(chunks[i])] \notin Whitespace

\* a paragraph that begins with white space was cut into two chunks or more,
\* one of them by the packing loop
C4_Witness ==
    /\ SplitDone
    /\ paragraph # <<>> /\ paragraph[1] \in Whitespace
    /\ Len(chunks) >= 2
    /\ merged # <<>>

----------------------------------------------------------------------------
(* The number normalizer. *)

NormalizeDone == fn = "normalize_numbers" /\ pc = "done"

\* C5: the decimal pattern is applied before the cardinal pattern, so the
\* result is the text with each digits '.' digits read as one decimal and
\* only then the remaining digit runs read as integers.
C5_DecimalBeforeCardinal ==
    NormalizeDone => normalized = SubCardinal(SubDecimal(text))

----------------------------------------------------------------------------
(* The parameter calculator. *)

CalculateDone == fn = "calculate_inference_params" /\ pc = "done"

\* the features of the text, as section 4.3 of the design names them
TextLen == Len(Strip(text))
WordCount == word_count(Strip(text))
UniqueWords == unique_words(Strip(text))
PunctuationCount == punctuation_count(Strip(text))

\* C6: the result is the fixed short-input value if and only if the text has
\* fewer than 15 words, whatever its length, punctuation and diversity; 14
\* words give it and 15 words do not.
C6_ShortBranchIffUnder15Words ==
    CalculateDone =>
        /\ (params = ShortParams) <=> (WordCount < 15)
        /\ WordCount = 14 => params = ShortParams
        /\ WordCount = 15 => params # ShortParams

\* a text of 14 words and more than 200 characters got the short value
C6_Witness ==
    /\ CalculateDone
    /\ WordCount = 14
    /\ TextLen > 200
    /\ params = ShortParams

\* C7: for a text of 15 words or more each field of the result is the value
\* the decision policy gives the features of the text.
C7_ReferencePolicy ==
    (CalculateDone /\ WordCount >= 15) =>
        /\ params.speed =
               (CASE 100 * PunctuationCount > 5 * TextLen -> 98
                  [] 100 * PunctuationCount <= 5 * TextLen /\ TextLen > 200 -> 95
                  [] OTHER -> 100)
        /\ params.length_penalty =
               (CASE TextLen < 80 -> 100
                  [] TextLen > 200 -> 110
                  [] OTHER -> 105)
        /\ params.temperature =
               (CASE 10 * UniqueWords > 7 * WordCount -> 75
                  [] 10 * UniqueWords < 5 * WordCount -> 70
                  [] OTHER -> 72)
        /\ params.repetition_penalty =
               (CASE WordCount > 50 /\ 10 * UniqueWords < 6 * WordCount -> 400
                  [] ~(WordCount > 50 /\ 10 * UniqueWords < 6 * WordCount)
                         /\ WordCount > 30 -> 300
                  [] OTHER -> 200)
        /\ params.enable_text_splitting = FALSE

\* a long, repetitive, comma-laden text of more than 50 words was rated
C7_Witness ==
    /\ CalculateDone
    /\ WordCount > 50
    /\ TextLen > 200
    /\ params.speed = 98
    /\ params.repetition_penalty = 400

----------------------------------------------------------------------------
(* The silence trimmer. *)

TrimDone == fn = "trim_silence" /\ pc = "done"

LastActiveSample ==
    frames_to_samples(SetMax(ActiveFrames(audio_data, frame_length, hop_length)),
                      hop_length)

KeepSamples == keep_silence_samples(keep_silence_duration, sr)

\* C8: the returned buffer is the prefix of the input of length
\* min(last_active_sample + keep_silence_samples, len(input)).
C8_ResultIsPrefix ==
    TrimDone =>
        /\ Len(trimmed_audio_data) = Min(LastActiveSample + KeepSamples, Len(audio_data))
        /\ Len(trimmed_audio_data) <= Len(audio_data)
        /\ \A i \in DOMAIN trimmed_audio_data : trimmed_audio_data[i] = audio_data[i]

\* a buffer with signal lost part of its tail
C8_Witness ==
    /\ TrimDone
    /\ Len(trimmed_audio_data) > 0
    /\ Len(trimmed_audio_data) < Len(audio_data)
    /\ \E i \in DOMAIN trimmed_audio_data : trimmed_audio_data[i] # 0

\* The buffer is N silent samples, M signal samples, K silent samples.
SignalAt == {i \in DOMAIN audio_data : audio_data[i] # 0}
OneBlock ==
    /\ SignalAt # {}
    /\ \A i \in DOMAIN audio_data :
           (\E a \in SignalAt : a <= i) /\ (\E b \in SignalAt : i <= b)
               => i \in SignalAt
BlockN == SetMax({0} \cup {i \in DOMAIN audio_data : \A j \in 1..i : audio_data[j] = 0})
BlockM == Cardinality(SignalAt)
BlockK == Len(audio_data) - BlockN - BlockM

C10_SilentAudioReported ==
    (/\ fn = "trim_silence" /\ pc # "call"
     /\ ActiveFrames(audio_data, frame_length, hop_length) = {})
        => (pc = "raised" /\ error = "SilentAudio" /\ trimmed_audio_data = <<>>)

----------------------------------------------------------------------------
(* paragraph_to_audio *)

PipeRun == fn = "paragraph_to_audio"

PipeReturned == PipeRun /\ pc = "returned"

\* the five steps of chunk i, in the order of the claim
ChunkSteps(i) ==
    <<<<"normalize", i>>, <<"calculate", i>>, <<"synthesize", i>>,
      <<"trim", i>>, <<"store", i>>>>

RECURSIVE AllSteps(_)
AllSteps(n) == IF n = 0 THEN <<>> ELSE AllSteps(n - 1) \o ChunkSteps(n - 1)

\* what the engine must have been asked for chunk i (from 1)
ExpectedCall(i) ==
    LET t == normalize_numbers(Strip(sentences[i]))
    IN  [index |-> i - 1, text |-> t, language |-> language,
         params |-> calculate_inference_params(t)]

\* index, '_', the first K characters of the chunk as segmented
ExpectedKey(i) ==
    LET n == Min(output_file_length, Len(sentences[i]))
    IN  IndexStr(i - 1) \o <<"_">> \o [j \in 1..n |-> sentences[i][j]]

\* C11: at most one engine call is ever in flight, and a run that returns
\* has taken, chunk by chunk in segmentation order, the steps normalize,
\* calculate (on the normalized text), synthesize once, trim, store; the
\* returned map has one entry per chunk, in that order, under pairwise
\* distinct keys index + '_' + the first K characters of the original chunk.
C11_OrderedOneEntryPerChunk ==
    PipeRun =>
        /\ in_flight <= 1
        /\ pc = "returned" =>
               LET m == returned[1]
                   n == Len(sentences)
               IN  /\ trace = AllSteps(n)
                   /\ Len(engine_calls) = n
                   /\ \A i \in 1..n : engine_calls[i] = ExpectedCall(i)
                   /\ Len(m) = n
                   /\ \A i \in 1..n : m[i].name = ExpectedKey(i)
                   /\ \A i, j \in 1..n : i # j => m[i].name # m[j].name

\* a returned run of two chunks with equal first characters, the first a
\* number, under keys that hold a character of the chunk
C11_Witness ==
    /\ PipeReturned
    /\ Len(sentences) = 2
    /\ Len(returned[1]) = 2
    /\ output_file_length >= 1
    /\ sentences[1][1] = "2"
    /\ sentences[2][1] = "2"
    /\ engine_calls[1].text # sentences[1]

\* the run was ended by the engine: its last step is the call of the engine
EngineFailed ==
    /\ PipeRun /\ pc = "raised"
    /\ trace # <<>>
    /\ trace[Len(trace)] = <<"synthesize", index>>

\* C12: when the engine fails on a chunk, the caller of paragraph_to_audio
\* gets an error tagged SynthesisFailure (which carries the index and the
\* text of the chunk), not the engine's own exception.
C12_EngineFailureTagged == EngineFailed => error = "SynthesisFailure"

PipeRaised == PipeRun /\ pc = "raised"

\* the steps that chunk i (from 0) has behind it when its audio is stored
Finished(i) ==
    /\ \E k \in DOMAIN engine_calls : engine_calls[k].index = i
    /\ {<<"synthesize", i>>, <<"trim", i>>, <<"store", i>>} \subseteq Range(trace)

====
